---- MODULE Spec2Model ----
(***************************************************************************)
(* s3rpc: request/response calls between a client and a server that only   *)
(* share an S3 bucket and two SQS queues.  The model follows client.go and *)
(* common.go (which also holds the server): the key scheme, Receive, the   *)
(* client poll loop of ExecuteFilename, the server loop of ListenAndServe  *)
(* and the two Close methods.  Strings are sequences of characters; a      *)
(* UUID is one character that occurs in no operation name or file name.    *)
(***************************************************************************)
EXTENDS Integers, Sequences, FiniteSets, TLC

\* ------------------------------------------------------------------ bounds
MaxEnv == 2
NumCloses == 2

\* --------------------------------------------------------------- constants
toServer == <<"to_server">>
toClient == <<"to_client">>
MaxNumberOfMessages == 5

Slash == "/"
Calls == {"1", "2"}
Srv == "srv"
Procs == {Srv} \cup Calls
NoProc == "none"
ConfBucket == "bkt"
OtherBucket == "other"

\* ------------------------------------------------------------ string model
Last(s) == s[Len(s)]

RECURSIVE StripSlashes(_)
StripSlashes(s) ==
    IF Len(s) > 0 /\ Last(s) = Slash THEN StripSlashes(SubSeq(s, 1, Len(s) - 1)) ELSE s

RECURSIVE AfterLastSlash(_)
AfterLastSlash(s) ==
    IF \E i \in 1..Len(s) : s[i] = Slash
    THEN AfterLastSlash(Tail(s))
    ELSE s

\* path.Base / filepath.Base: "" gives ".", trailing slashes are dropped,
\* the last element is returned, a string of slashes gives "/".
Base(s) ==
    IF s = <<>> THEN <<".">>
    ELSE LET t == StripSlashes(s)
         IN  IF t = <<>> THEN <<Slash>> ELSE AfterLastSlash(t)

\* strings.Split(s, "/")
RECURSIVE Split(_)
Split(s) ==
    IF \E i \in 1..Len(s) : s[i] = Slash
    THEN LET i == CHOOSE j \in 1..Len(s) : s[j] = Slash /\ \A k \in 1..(j - 1) : s[k] # Slash
         IN  <<SubSeq(s, 1, i - 1)>> \o Split(SubSeq(s, i + 1, Len(s)))
    ELSE <<s>>

\* The filter of the poll loop left out: every message counts as a match.
ContainsAnything(s, sub) == TRUE

\* strings.Contains(s, sub)
Contains(s, sub) ==
    \E i \in 0..(Len(s) - Len(sub)) : SubSeq(s, i + 1, i + Len(sub)) = sub

\* uuid.New().String() of call c
Uuid(c) == <<c>>

Join3(a, b, c) == a \o <<Slash>> \o b \o <<Slash>> \o c

\* client.go:73  fmt.Sprintf("%s/%s/%s_%s", toServer, op, id, filepath.Base(filename))
RequestKey(op, id, filename) == Join3(toServer, op, id \o <<"_">> \o Base(filename))

\* A response key built from the name of the handler's result file.
ResponseKeyOfResult(op, baseKey) == Join3(toClient, op, <<"out">>)

\* common.go:372  toClient + "/" + op + "/" + baseKey
ResponseKey(op, baseKey) == Join3(toClient, op, baseKey)

\* ------------------------------------------------------------------ inputs
\* Operation names and file names a caller may pass to ExecuteFilename, and
\* the handler table of the server (ServerOptions.Handlers).
Ops == {<<"a">>, <<"b">>, <<"a", Slash, "b">>}
Files == {<<"f">>, <<"d", Slash, "g">>}
Handlers == {<<"a">>}
HandlerResults == {[content |-> "r1", meta |-> "m1"], [content |-> "r2", meta |-> "m2"]}

\* ------------------------------------------------------------------ errors
NoErr == [kind |-> "nil", expected |-> "", got |-> "", wrap |-> ""]
Err(k) == [kind |-> k, expected |-> "", got |-> "", wrap |-> ""]
\* The two arguments of the format string exchanged.
BucketErrSwapped(exp, act) == [kind |-> "bucket", expected |-> act, got |-> exp, wrap |-> ""]

\* fmt.Errorf("expected bucket %q, got %q", c.bucket, m.Bucket)
BucketErr(exp, act) == [kind |-> "bucket", expected |-> exp, got |-> act, wrap |-> ""]
\* client.go:145  fmt.Errorf("apply: %v", err)
Apply(e) == [e EXCEPT !.wrap = "apply"]

EmptyOutput == [Filename |-> <<>>, Metadata |-> "nil"]
NoResult == [content |-> "", meta |-> "nil"]

\* ------------------------------------------------------------------- state
VARIABLES
    queue,      \* queue name -> set of queue messages (SQS)
    store,      \* set of objects [key, content, meta] of the bucket (S3)
    cpc, ckey, cms, cidx, cctx, cret, cgot,         \* ExecuteFilename calls
    cdirOK, cfiles,                                 \* Client.tempDir
    spc, sms, sidx, sctx, serr, sres,               \* ListenAndServe
    sdirOK, quit, once,                             \* Server.tempDir, quit, closeOnce
    kpc, kres, jpc, jres,                           \* Server.Close / Client.Close calls
    nQuit, nSrvRemove, nCliRemove,                  \* executions of close(quit), RemoveAll
    envLeft,    \* notifications the environment may still inject
    returned,   \* log of handler invocations: [key, res, by]
    closedAt,   \* server loop position when Close was first called
    sopts, copts,   \* the ServerOptions and ClientOptions given to the constructors
    snew, cnew      \* what NewServer and NewClient returned

qvars == <<queue, store>>
cvars == <<cpc, ckey, cms, cidx, cctx, cret, cgot>>
cinst == <<cdirOK, cfiles>>
svars == <<spc, sms, sidx, sctx, serr, sres>>
sinst == <<sdirOK, quit, once>>
kvars == <<kpc, kres, nQuit, nSrvRemove, closedAt>>
jvars == <<jpc, jres, nCliRemove>>
gvars == <<envLeft, returned>>
ovars == <<sopts, copts, snew, cnew>>
vars == <<qvars, cvars, cinst, svars, sinst, kvars, jvars, gvars, ovars>>

Closers == 1..NumCloses

\* ------------------------------------------------------------- construction
\* common.go:23
defaultRegion == "eu-north-1"

\* AWSConfig with the queue of ServerOptions / ClientOptions: each field is
\* either empty or set.
Options ==
    [Region : {"", "r"}, Bucket : {"", ConfBucket}, AccessKeyID : {"", "id"},
     SecretAccessKey : {"", "secret"}, Queue : {"", "q"}]

ValidOptions ==
    [Region |-> "", Bucket |-> ConfBucket, AccessKeyID |-> "id",
     SecretAccessKey |-> "secret", Queue |-> "q"]

\* common.go:415-433  func (opts *ServerOptions) init() error: the options as
\* it leaves them, and its result.
ServerOptionsInit(o) ==
    [opts |-> IF o.Region = "" THEN [o EXCEPT !.Region = defaultRegion] ELSE o,
     err |-> IF o.AccessKeyID = "" THEN Err("access key id is required")
             ELSE IF o.SecretAccessKey = "" THEN Err("secret access key is required")
             ELSE IF o.Queue = "" THEN Err("queue is required")
             ELSE NoErr]

\* client.go:171-189  func (opts *ClientOptions) init() error
ClientOptionsInit(o) ==
    [opts |-> IF o.Region = "" THEN [o EXCEPT !.Region = defaultRegion] ELSE o,
     err |-> IF o.AccessKeyID = "" THEN Err("access key id is required")
             ELSE IF o.SecretAccessKey = "" THEN Err("secret access key is required")
             ELSE IF o.Queue = "" THEN Err("queue is required")
             ELSE NoErr]

\* Not yet constructed; constructed with the region and bucket of its
\* configuration; failed with an error.
NotConstructed == [state |-> "new", err |-> NoErr, region |-> "", bucket |-> ""]
Constructed(o) == [state |-> "ok", err |-> NoErr, region |-> o.Region, bucket |-> o.Bucket]
Failed(e) == [state |-> "failed", err |-> e, region |-> "", bucket |-> ""]

ServerQ == "server"
ClientQ == "client"

\* ------------------------------------------------------------- SQS and S3
\* A queue message: the notification (bucket, key, number of records), whether
\* it is in flight (leased), and who received it last (the owner of the newest
\* receipt handle).
Ident(m) == [bucket |-> m.bucket, key |-> m.key, nrec |-> m.nrec]
NewMsg(b, k, n) == [bucket |-> b, key |-> k, nrec |-> n, inflight |-> FALSE, last |-> NoProc]

Visible(q) == {m \in queue[q] : ~m.inflight}

\* S3 sends the notification of an object to the queue of its direction.
QueueOf(key) == IF Len(key) > 0 /\ key[1] = toClient[1] THEN ClientQ ELSE ServerQ

Min(a, b) == IF a < b THEN a ELSE b

\* The batches ReceiveMessage may return: up to MaxNumberOfMessages visible
\* messages, in any order.
BatchesOf(V) ==
    UNION {{b \in [1..n -> V] : \A i, j \in 1..n : i # j => b[i] # b[j]} :
           n \in 0..Min(Cardinality(V), MaxNumberOfMessages)}

Batches(q) == BatchesOf({Ident(m) : m \in Visible(q)})

InBatch(b, id) == \E i \in 1..Len(b) : b[i] = id

\* ReceiveMessage with VisibilityTimeout 7: the batch is leased to p.
Lease(qs, q, p, b) ==
    [qs EXCEPT ![q] = {IF InBatch(b, Ident(m)) THEN [m EXCEPT !.inflight = TRUE, !.last = p] ELSE m :
                       m \in qs[q]}]

\* A delete that reports success and leaves the message in the queue.
DeleteKeeps(qs, q, p, h) == qs

\* DeleteMessage: removes the message when the handle is its newest one.
DeleteMessage(qs, q, p, h) ==
    [qs EXCEPT ![q] = {m \in qs[q] : ~(Ident(m) = h /\ m.last = p)}]

\* A release that removes the message instead of resetting its lease.
ReleaseDeletes(qs, q, p, h) == DeleteMessage(qs, q, p, h)

\* ChangeMessageVisibility(0): the message in flight under this handle becomes
\* visible again.
ReleaseMessage(qs, q, p, h) ==
    [qs EXCEPT ![q] = {IF Ident(m) = h /\ m.last = p /\ m.inflight
                       THEN [m EXCEPT !.inflight = FALSE, !.last = NoProc] ELSE m : m \in qs[q]}]

HasObject(st, key) == \E o \in st : o.key = key
Object(st, key) == CHOOSE o \in st : o.key = key
PutObject(st, key, content, meta) ==
    {o \in st : o.key # key} \cup {[key |-> key, content |-> content, meta |-> meta]}
DeleteObject(st, key) == {o \in st : o.key # key}

\* A download that copies the body and forgets the metadata.
GetObjectNoMetadata(st, key) == [content |-> Object(st, key).content, meta |-> "nil"]

\* common.getObject, lines 109-128: the body copied to the file, and o.Metadata.
GetObject(st, key) == [content |-> Object(st, key).content, meta |-> Object(st, key).meta]

\* Upload of an object and the notification S3 emits for it.
Notify(qs, key) ==
    [qs EXCEPT ![QueueOf(key)] = {m \in @ : Ident(m) # [bucket |-> ConfBucket, key |-> key, nrec |-> 1]}
                                 \cup {NewMsg(ConfBucket, key, 1)}]

\* Receive that treats a body without records as an error.
RECURSIVE ParseFromZeroFails(_, _, _)
ParseFromZeroFails(b, i, acc) ==
    IF i > Len(b) THEN [msgs |-> acc, err |-> NoErr]
    ELSE IF b[i].nrec # 1 THEN [msgs |-> <<>>, err |-> Err("records")]
    ELSE ParseFromZeroFails(b, i + 1,
                   Append(acc, [Bucket |-> b[i].bucket, Key |-> b[i].key, ReceiptHandle |-> b[i]]))

\* Receive that takes the first record of a body with several records.
RECURSIVE ParseFromFirstRecord(_, _, _)
ParseFromFirstRecord(b, i, acc) ==
    IF i > Len(b) THEN [msgs |-> acc, err |-> NoErr]
    ELSE IF b[i].nrec = 0 THEN ParseFromFirstRecord(b, i + 1, acc)
    ELSE ParseFromFirstRecord(b, i + 1,
                   Append(acc, [Bucket |-> b[i].bucket, Key |-> b[i].key, ReceiptHandle |-> b[i]]))

\* common.Receive, lines 66-84: the messages of a batch, or the error.
RECURSIVE ParseFrom(_, _, _)
ParseFrom(b, i, acc) ==
    IF i > Len(b) THEN [msgs |-> acc, err |-> NoErr]
    ELSE IF b[i].nrec = 0 THEN ParseFrom(b, i + 1, acc)
    ELSE IF b[i].nrec > 1 THEN [msgs |-> <<>>, err |-> Err("records")]
    ELSE ParseFrom(b, i + 1,
                   Append(acc, [Bucket |-> b[i].bucket, Key |-> b[i].key, ReceiptHandle |-> b[i]]))

Parse(b) == ParseFrom(b, 1, <<>>)

\* ---------------------------------------------------------------- Init
\* The queues, the bucket, the calls and the loop before anything has run.
InitRun ==
    /\ queue = [q \in {ServerQ, ClientQ} |-> {}]
    /\ store = {}
    /\ cpc = [c \in Calls |-> "idle"]
    /\ ckey = [c \in Calls |-> <<>>]
    /\ cms = [c \in Calls |-> <<>>]
    /\ cidx = [c \in Calls |-> 1]
    /\ cctx = [c \in Calls |-> FALSE]
    /\ cret = [c \in Calls |-> [out |-> EmptyOutput, err |-> NoErr]]
    /\ cgot = [c \in Calls |-> <<>>]
    /\ cfiles = {}
    /\ spc = "top"
    /\ sms = <<>>
    /\ sidx = 1
    /\ sctx = FALSE
    /\ serr = NoErr
    /\ sres = NoResult
    /\ quit = FALSE
    /\ once = "new"
    /\ kpc = [k \in Closers |-> "idle"]
    /\ kres = [k \in Closers |-> NoErr]
    /\ jpc = [j \in Closers |-> "idle"]
    /\ jres = [j \in Closers |-> NoErr]
    /\ nQuit = 0
    /\ nSrvRemove = 0
    /\ nCliRemove = 0
    /\ envLeft = MaxEnv
    /\ returned = {}
    /\ closedAt = "never"

\* A server and a client constructed from complete options (as in
\* roundtrip_test.go), each with its scratch directory.
Init ==
    /\ InitRun
    /\ sopts = ValidOptions
    /\ copts = ValidOptions
    /\ snew = Constructed(ServerOptionsInit(sopts).opts)
    /\ cnew = Constructed(ClientOptionsInit(copts).opts)
    /\ sdirOK = TRUE
    /\ cdirOK = TRUE

\* Any options, before NewServer and NewClient are called.
InitNew ==
    /\ InitRun
    /\ sopts \in Options
    /\ copts \in Options
    /\ snew = NotConstructed
    /\ cnew = NotConstructed
    /\ sdirOK = FALSE
    /\ cdirOK = FALSE

\* common.go:234-273  func NewServer(opts ServerOptions) (*Server, error)
NewServer ==
    /\ snew.state = "new"
    /\ LET r == ServerOptionsInit(sopts)
       IN  IF r.err # NoErr
           THEN /\ snew' = Failed(r.err)
                /\ UNCHANGED sdirOK
           ELSE \E ok \in BOOLEAN :
                  IF ok
                  THEN /\ sdirOK' = TRUE
                       /\ snew' = Constructed(r.opts)
                  ELSE /\ snew' = Failed(Err("mkdirtemp"))
                       /\ UNCHANGED sdirOK
    /\ UNCHANGED <<qvars, cvars, cinst, svars, quit, once, kvars, jvars, gvars,
                   sopts, copts, cnew>>

\* client.go:23-60  func NewClient(opts ClientOptions) (*Client, error)
NewClient ==
    /\ cnew.state = "new"
    /\ LET r == ClientOptionsInit(copts)
       IN  IF r.err # NoErr
           THEN /\ cnew' = Failed(r.err)
                /\ UNCHANGED cdirOK
           ELSE \E ok \in BOOLEAN :
                  IF ok
                  THEN /\ cdirOK' = TRUE
                       /\ cnew' = Constructed(r.opts)
                  ELSE /\ cnew' = Failed(Err("mkdirtemp"))
                       /\ UNCHANGED cdirOK
    /\ UNCHANGED <<qvars, cvars, cfiles, svars, sinst, kvars, jvars, gvars,
                   sopts, copts, snew>>

\* ------------------------------------------------- Client.ExecuteFilename
\* client.go:144-148: the result of the call; the locals of the loop are gone.
CReturn(c, out, e) ==
    /\ cpc' = [cpc EXCEPT ![c] = "done"]
    /\ cret' = [cret EXCEPT ![c] = IF e = NoErr THEN [out |-> out, err |-> NoErr]
                                   ELSE [out |-> EmptyOutput, err |-> Apply(e)]]
    /\ cms' = [cms EXCEPT ![c] = <<>>]
    /\ cidx' = [cidx EXCEPT ![c] = 1]

\* client.go:72-78: new id, request key, upload of the request object.
ExecuteFilename(c, op, filename) ==
    /\ cpc[c] = "idle"
    /\ LET key == RequestKey(op, Uuid(c), filename)
       IN  \E ok \in BOOLEAN :
             IF ok
             THEN /\ store' = PutObject(store, key, "in", "nil")
                  /\ queue' = Notify(queue, key)
                  /\ cpc' = [cpc EXCEPT ![c] = "top"]
                  /\ ckey' = [ckey EXCEPT ![c] = key]
                  /\ UNCHANGED <<cret, cms, cidx>>
             ELSE /\ CReturn(c, EmptyOutput, Err("upload"))
                  /\ UNCHANGED <<store, queue, ckey>>
    /\ UNCHANGED <<cctx, cgot, cinst, svars, sinst, kvars, jvars, ovars, gvars>>

\* A select that never sees the context done.
CtxDoneNever(done) == FALSE

\* client.go:90, common.go:318  case <-ctx.Done()
CtxDone(done) == done

\* client.go:83: the deadline of context.WithTimeout passes.
Timeout(c) ==
    /\ cpc[c] \in {"top", "recv", "dispatch"}
    /\ ~cctx[c]
    /\ cctx' = [cctx EXCEPT ![c] = TRUE]
    /\ UNCHANGED <<qvars, cpc, ckey, cms, cidx, cret, cgot, cinst, svars, sinst, kvars,
                   jvars, ovars, gvars>>

\* A call that takes the context fails with the context's error once the
\* context is done, and with its own error otherwise.
FailKind(done, k) == IF done THEN "canceled" ELSE k

\* client.go:89-92: the select at the top of the poll loop.
ClientPoll(c) ==
    /\ cpc[c] = "top"
    /\ IF CtxDone(cctx[c])
       THEN CReturn(c, EmptyOutput, NoErr)
       ELSE /\ cpc' = [cpc EXCEPT ![c] = "recv"]
            /\ UNCHANGED <<cret, cms, cidx>>
    /\ UNCHANGED <<qvars, ckey, cctx, cgot, cinst, svars, sinst, kvars, jvars, ovars, gvars>>

\* client.go:93-97: the Receive of the default case returns.
ClientReceive(c) ==
    /\ cpc[c] = "recv"
    /\ \E ok \in BOOLEAN, b \in Batches(ClientQ) :
              IF ~ok
              THEN /\ CReturn(c, EmptyOutput, Err(FailKind(cctx[c], "transport")))
                   /\ UNCHANGED queue
              ELSE /\ queue' = Lease(queue, ClientQ, c, b)
                   /\ IF Parse(b).err # NoErr
                      THEN CReturn(c, EmptyOutput, Parse(b).err)
                      ELSE /\ cms' = [cms EXCEPT ![c] = Parse(b).msgs]
                           /\ cidx' = [cidx EXCEPT ![c] = 1]
                           /\ cpc' = [cpc EXCEPT ![c] = IF Parse(b).msgs = <<>> THEN "top" ELSE "dispatch"]
                           /\ UNCHANGED cret
    /\ UNCHANGED <<store, ckey, cctx, cgot, cinst, svars, sinst, kvars, jvars, ovars, gvars>>

\* os.CreateTemp(dir, "*_"+base): the name of the scratch file.
TempName(base) == <<"*", "_">> \o base

\* The next message of the batch, or back to the top of the loop.
CNext(c) ==
    IF cidx[c] < Len(cms[c])
    THEN /\ cidx' = [cidx EXCEPT ![c] = cidx[c] + 1]
         /\ UNCHANGED <<cpc, cms>>
    ELSE /\ cpc' = [cpc EXCEPT ![c] = "top"]
         /\ cms' = [cms EXCEPT ![c] = <<>>]
         /\ cidx' = [cidx EXCEPT ![c] = 1]

\* client.go:98-139: one message of the batch.
ClientDispatch(c) ==
    /\ cpc[c] = "dispatch"
    /\ LET m == cms[c][cidx[c]]
           name == TempName(Base(m.Key))
       IN
       IF m.Bucket # ConfBucket
       THEN /\ CReturn(c, EmptyOutput, BucketErr(ConfBucket, m.Bucket))
            /\ UNCHANGED <<qvars, cgot, cinst>>
       ELSE IF ~Contains(m.Key, Uuid(c))
       THEN \E ok \in BOOLEAN :
              IF ok
              THEN /\ queue' = ReleaseMessage(queue, ClientQ, c, m.ReceiptHandle)
                   /\ CNext(c)
                   /\ UNCHANGED <<store, cret, cgot, cinst>>
              ELSE /\ CReturn(c, EmptyOutput, Err(FailKind(cctx[c], "transport")))
                   /\ UNCHANGED <<qvars, cgot, cinst>>
       ELSE \E fail \in {"delete", "tempfile", "getobject", "none"}, del \in BOOLEAN :
              \* fail: the call that fails; del: whether the two deleteObject calls work
              IF fail = "delete"
              THEN /\ CReturn(c, EmptyOutput, Err(FailKind(cctx[c], "transport")))
                   /\ UNCHANGED <<qvars, cgot, cinst>>
              ELSE /\ queue' = DeleteMessage(queue, ClientQ, c, m.ReceiptHandle)
                   /\ IF fail = "tempfile" \/ ~cdirOK
                      THEN /\ CReturn(c, EmptyOutput, Err("tempfile"))
                           /\ UNCHANGED <<store, cgot, cinst>>
                      ELSE IF fail = "getobject" \/ ~HasObject(store, m.Key)
                      THEN /\ cfiles' = {f \in cfiles : f.name # name} \cup
                                        {[name |-> name, content |-> "partial"]}
                           /\ CReturn(c, EmptyOutput, Err(FailKind(cctx[c], "getobject")))
                           /\ UNCHANGED <<store, cgot, cdirOK>>
                      ELSE /\ cfiles' = {f \in cfiles : f.name # name} \cup
                                        {[name |-> name, content |-> GetObject(store, m.Key).content]}
                           /\ cgot' = [cgot EXCEPT ![c] = m.Key]
                           /\ store' = IF del THEN DeleteObject(DeleteObject(store, m.Key), ckey[c])
                                       ELSE store
                           /\ CReturn(c, [Filename |-> name, Metadata |-> GetObject(store, m.Key).meta],
                                      NoErr)
                           /\ UNCHANGED cdirOK
    /\ UNCHANGED <<ckey, cctx, svars, sinst, kvars, jvars, ovars, gvars>>

\* ------------------------------------------------- Server.ListenAndServe
\* The goroutine of ListenAndServe returns e; its locals are gone.
\* A loop that records the error and goes on with the next iteration.
SReturnGoesOn(e) ==
    /\ spc' = "top"
    /\ serr' = e
    /\ sms' = <<>>
    /\ sidx' = 1
    /\ sres' = NoResult

\* A loop that records the error and tries the failed call again.
SReturnRetries(e) ==
    /\ serr' = e
    /\ UNCHANGED <<spc, sms, sidx, sres>>

SReturn(e) ==
    /\ spc' = "done"
    /\ serr' = e
    /\ sms' = <<>>
    /\ sidx' = 1
    /\ sres' = NoResult

\* The next message of the batch, or time.Sleep(s.pollIntervall) and the select.
SNext ==
    /\ sres' = NoResult
    /\ IF sidx < Len(sms)
       THEN /\ sidx' = sidx + 1
            /\ spc' = "dispatch"
            /\ UNCHANGED sms
       ELSE /\ spc' = "top"
            /\ sms' = <<>>
            /\ sidx' = 1

\* common.go:313-320: the select at the top of the loop.
ServerPoll ==
    /\ spc = "top"
    /\ IF quit \/ CtxDone(sctx)
       THEN SReturn(NoErr)
       ELSE /\ spc' = "recv"
            /\ UNCHANGED <<sms, sidx, serr, sres>>
    /\ UNCHANGED <<qvars, sctx, cvars, cinst, sinst, kvars, jvars, ovars, gvars>>

\* common.go:321-325: the Receive of the default case returns.
ServerReceive ==
    /\ spc = "recv"
    /\ \E ok \in BOOLEAN, b \in Batches(ServerQ) :
              IF ~ok
              THEN /\ SReturn(Err(FailKind(sctx, "transport")))
                   /\ UNCHANGED queue
              ELSE /\ queue' = Lease(queue, ServerQ, Srv, b)
                   /\ IF Parse(b).err # NoErr
                      THEN SReturn(Parse(b).err)
                      ELSE /\ sms' = Parse(b).msgs
                           /\ sidx' = 1
                           /\ spc' = IF Parse(b).msgs = <<>> THEN "top" ELSE "dispatch"
                           /\ UNCHANGED <<serr, sres>>
    /\ UNCHANGED <<store, sctx, cvars, cinst, sinst, kvars, jvars, ovars, gvars>>

\* common.go:334  strings.Split(m.Key, "/")[1]
HasOp(key) == Len(Split(key)) >= 2
OpOf(key) == Split(key)[2]

\* common.go:327-347: bucket check, handler lookup, release or delete.
ServerDispatch ==
    /\ spc = "dispatch"
    /\ LET m == sms[sidx]
       IN
       IF m.Bucket # ConfBucket
       THEN /\ SReturn(BucketErr(ConfBucket, m.Bucket))
            /\ UNCHANGED queue
       ELSE IF ~HasOp(m.Key)
       THEN /\ spc' = "panic"      \* index out of range
            /\ UNCHANGED <<queue, sms, sidx, serr, sres>>
       ELSE IF OpOf(m.Key) \notin Handlers
       THEN \E ok \in BOOLEAN :
              IF ok
              THEN /\ queue' = ReleaseMessage(queue, ServerQ, Srv, m.ReceiptHandle)
                   /\ SNext
                   /\ UNCHANGED serr
              ELSE /\ SReturn(Err(FailKind(sctx, "transport")))
                   /\ UNCHANGED queue
       ELSE \E ok \in BOOLEAN :
              IF ok
              THEN /\ queue' = DeleteMessage(queue, ServerQ, Srv, m.ReceiptHandle)
                   /\ spc' = "download"
                   /\ UNCHANGED <<sms, sidx, serr, sres>>
              ELSE /\ SReturn(Err(FailKind(sctx, "transport")))
                   /\ UNCHANGED queue
    /\ UNCHANGED <<store, sctx, cvars, cinst, sinst, kvars, jvars, ovars, gvars>>

\* common.go:352-362: scratch file and download of the request object.
ServerDownload ==
    /\ spc = "download"
    /\ LET m == sms[sidx]
       IN  \E ok \in BOOLEAN :
             IF ~sdirOK
             THEN SReturn(Err("tempfile"))
             ELSE IF ~ok \/ ~HasObject(store, m.Key)
             THEN SReturn(Err(FailKind(sctx, "getobject")))
             ELSE /\ spc' = "handle"
                  /\ UNCHANGED <<sms, sidx, serr, sres>>
    /\ UNCHANGED <<qvars, sctx, cvars, cinst, sinst, kvars, jvars, ovars, gvars>>

\* common.go:364-367: the handler call.
ServerHandle ==
    /\ spc = "handle"
    /\ \/ \E r \in HandlerResults :
            /\ sres' = r
            /\ returned' = returned \cup {[key |-> sms[sidx].Key, res |-> r, by |-> Srv]}
            /\ spc' = "upload"
            /\ UNCHANGED <<sms, sidx, serr>>
       \/ /\ SReturn(Err("handle"))
          /\ UNCHANGED returned
    /\ UNCHANGED <<qvars, sctx, cvars, cinst, sinst, kvars, jvars, ovars, envLeft>>

\* common.go:372-378: upload of the result under the response key.
ServerUpload ==
    /\ spc = "upload"
    /\ LET m == sms[sidx]
           key == ResponseKey(OpOf(m.Key), Base(m.Key))
       IN  \E ok \in BOOLEAN :
             IF ok
             THEN /\ store' = PutObject(store, key, sres.content, sres.meta)
                  /\ queue' = Notify(queue, key)
                  /\ SNext
                  /\ UNCHANGED serr
             ELSE /\ SReturn(Err("upload"))
                  /\ UNCHANGED qvars
    /\ UNCHANGED <<sctx, cvars, cinst, sinst, kvars, jvars, ovars, gvars>>

\* A second server polling the same queue with the same handlers: one
\* iteration of its loop that receives one visible request and completes it
\* (Receive, deleteMessage, getObject, handler, upload).
Srv2 == "srv2"

OtherServe ==
    /\ \E m \in Visible(ServerQ), r \in HandlerResults :
         /\ m.nrec = 1
         /\ m.bucket = ConfBucket
         /\ HasOp(m.key)
         /\ OpOf(m.key) \in Handlers
         /\ HasObject(store, m.key)
         /\ LET key == ResponseKey(OpOf(m.key), Base(m.key))
                leased == Lease(queue, ServerQ, Srv2, <<Ident(m)>>)
            IN  /\ queue' = Notify(DeleteMessage(leased, ServerQ, Srv2, Ident(m)), key)
                /\ store' = PutObject(store, key, r.content, r.meta)
                /\ returned' = returned \cup {[key |-> m.key, res |-> r, by |-> Srv2]}
    /\ UNCHANGED <<cvars, cinst, svars, sinst, kvars, jvars, ovars, envLeft>>

\* The context passed to ListenAndServe is cancelled.
CancelServer ==
    /\ spc \notin {"done", "panic"}
    /\ ~sctx
    /\ sctx' = TRUE
    /\ UNCHANGED <<qvars, spc, sms, sidx, serr, sres, cvars, cinst, sinst, kvars, jvars, ovars, gvars>>

\* ------------------------------------------------------------ Server.Close
\* No once guard: every caller runs the function.
OnceFirstAlways(o) == TRUE

\* sync.Once: only the first caller of Do runs the function.
OnceFirst(o) == o = "new"

\* common.go:299-306.  closeOnce.Do runs the function for the first caller
\* and makes the others wait until it has returned.
ServerCloseEnter(k) ==
    /\ kpc[k] = "idle"
    /\ once # "running"
    /\ IF OnceFirst(once)
       THEN /\ once' = "running"
            /\ kpc' = [kpc EXCEPT ![k] = "quit"]
            /\ closedAt' = IF closedAt = "never" THEN spc ELSE closedAt
            /\ UNCHANGED kres
       ELSE /\ kpc' = [kpc EXCEPT ![k] = "done"]
            /\ kres' = [kres EXCEPT ![k] = NoErr]
            /\ UNCHANGED <<once, closedAt>>
    /\ UNCHANGED <<qvars, cvars, cinst, svars, sdirOK, quit, nQuit, nSrvRemove, jvars, ovars, gvars>>

\* close(s.quit)
ServerCloseQuit(k) ==
    /\ kpc[k] = "quit"
    /\ quit' = TRUE
    /\ nQuit' = nQuit + 1
    /\ kpc' = [kpc EXCEPT ![k] = "remove"]
    /\ UNCHANGED <<qvars, cvars, cinst, svars, sdirOK, once, kres, nSrvRemove, closedAt, jvars, ovars, gvars>>

\* err = os.RemoveAll(s.tempDir); return err
ServerCloseRemove(k) ==
    /\ kpc[k] = "remove"
    /\ \E ok \in BOOLEAN :
         /\ sdirOK' = IF ok THEN FALSE ELSE sdirOK
         /\ kres' = [kres EXCEPT ![k] = IF ok \/ ~sdirOK THEN NoErr ELSE Err("removeall")]
    /\ nSrvRemove' = nSrvRemove + 1
    /\ once' = "done"
    /\ kpc' = [kpc EXCEPT ![k] = "done"]
    /\ UNCHANGED <<qvars, cvars, cinst, svars, quit, nQuit, closedAt, jvars, ovars, gvars>>

\* ------------------------------------------------------------ Client.Close
\* client.go:153-155  return os.RemoveAll(c.tempDir)
ClientClose(j) ==
    /\ jpc[j] = "idle"
    /\ \E ok \in BOOLEAN :
         /\ cdirOK' = IF ok THEN FALSE ELSE cdirOK
         /\ cfiles' = IF ok THEN {} ELSE cfiles
         /\ jres' = [jres EXCEPT ![j] = IF ok \/ ~cdirOK THEN NoErr ELSE Err("removeall")]
    /\ nCliRemove' = nCliRemove + 1
    /\ jpc' = [jpc EXCEPT ![j] = "done"]
    /\ UNCHANGED <<qvars, cvars, svars, sinst, kvars, gvars, ovars>>

\* ------------------------------------------------------------ environment
\* The visibility timeout of a message in flight runs out.
Expire(q) ==
    /\ \E m \in queue[q] :
         /\ m.inflight
         /\ queue' = [queue EXCEPT ![q] = (@ \ {m}) \cup {[m EXCEPT !.inflight = FALSE]}]
    /\ UNCHANGED <<store, cvars, cinst, svars, sinst, kvars, jvars, ovars, gvars>>

\* Notifications that reach a queue from elsewhere: a body without records,
\* one with two records, one of another bucket, one of an object at the
\* bucket root.
EnvBodies ==
    {[bucket |-> "", key |-> <<>>, nrec |-> 0],
     [bucket |-> "", key |-> <<>>, nrec |-> 2],
     [bucket |-> OtherBucket, key |-> <<"x">>, nrec |-> 1],
     [bucket |-> ConfBucket, key |-> <<"x">>, nrec |-> 1]}

EnvNotify(q) ==
    /\ envLeft > 0
    /\ \E b \in EnvBodies :
         /\ \A m \in queue[q] : Ident(m) # b
         /\ queue' = [queue EXCEPT ![q] = @ \cup {NewMsg(b.bucket, b.key, b.nrec)}]
    /\ envLeft' = envLeft - 1
    /\ UNCHANGED <<store, cvars, cinst, svars, sinst, kvars, jvars, ovars, returned>>

\* ---------------------------------------------------------- specification
Server ==
    \/ ServerPoll
    \/ ServerReceive
    \/ ServerDispatch
    \/ ServerDownload
    \/ ServerHandle
    \/ ServerUpload

Client ==
    \/ \E c \in Calls : Timeout(c)
    \/ \E c \in Calls : ClientPoll(c)
    \/ \E c \in Calls : ClientReceive(c)
    \/ \E c \in Calls : ClientDispatch(c)

\* Two concurrent calls on one response queue, and the server.
Next ==
    \/ \E c \in Calls, op \in Ops : ExecuteFilename(c, op, <<"f">>)
    \/ Client
    \/ Server
    \/ \E q \in {ServerQ, ClientQ} : Expire(q)

Spec == Init /\ [][Next]_vars

\* One call with any operation and file name, the server, and notifications
\* from elsewhere on both queues.
NextEnv ==
    \/ \E op \in Ops, f \in Files : ExecuteFilename("1", op, f)
    \/ Client
    \/ Server
    \/ \E q \in {ServerQ, ClientQ} : Expire(q)
    \/ \E q \in {ServerQ, ClientQ} : EnvNotify(q)

SpecEnv == Init /\ [][NextEnv]_vars

\* One call, the server, and Close called on the server and on the client.
NextClose ==
    \/ ExecuteFilename("1", <<"a">>, <<"f">>)
    \/ \E c \in Calls : ClientPoll(c)
    \/ \E c \in Calls : ClientReceive(c)
    \/ \E c \in Calls : ClientDispatch(c)
    \/ Server
    \/ CancelServer
    \/ \E q \in {ServerQ, ClientQ} : Expire(q)
    \/ \E k \in Closers : ServerCloseEnter(k)
    \/ \E k \in Closers : ServerCloseQuit(k)
    \/ \E k \in Closers : ServerCloseRemove(k)
    \/ \E j \in Closers : ClientClose(j)

SpecClose == Init /\ [][NextClose]_vars

\* Two calls of the operation that has a handler, with the scheduling of the
\* calls: a call that can take a step takes one (its goroutine runs, and
\* Receive and the other requests return), and the deadline of a call that is
\* still running passes.
NextLive ==
    \/ \E c \in Calls : ExecuteFilename(c, <<"a">>, <<"f">>)
    \/ Client
    \/ Server
    \/ \E q \in {ServerQ, ClientQ} : Expire(q)

SpecLive ==
    /\ Init
    /\ [][NextLive]_vars
    /\ \A c \in Calls :
         /\ WF_vars(Timeout(c))
         /\ WF_vars(ClientPoll(c))
         /\ WF_vars(ClientReceive(c))
         /\ WF_vars(ClientDispatch(c))

\* The requests of two calls of the operation that has a handler, and two
\* servers on the request queue; the calls are still waiting for Receive.
NextTwo ==
    \/ \E c \in Calls : ExecuteFilename(c, <<"a">>, <<"f">>)
    \/ Server
    \/ OtherServe
    \/ Expire(ServerQ)

SpecTwo == Init /\ [][NextTwo]_vars

\* The two constructors applied to any options.
NextNew ==
    \/ NewServer
    \/ NewClient

SpecNew == InitNew /\ [][NextNew]_vars

\* ------------------------------------------------------------------ claims
HasToken(s, t) == \E i \in 1..Len(s) : s[i] = t
FileContent(name) == (CHOOSE f \in cfiles : f.name = name).content
HasFile(name) == \E f \in cfiles : f.name = name
Returned(c) == cpc[c] = "done"
Succeeded(c) == Returned(c) /\ cret[c].err = NoErr /\ cret[c].out # EmptyOutput
InQueue(q, h) == \E m \in queue[q] : Ident(m) = h
QueueMsg(q, h) == CHOOSE m \in queue[q] : Ident(m) = h

\* C1: a call that returns an Output has downloaded a response whose key holds
\* its own correlation identifier and the basename of its own request, and
\* holds no other call's identifier.
C1_OwnResponse ==
    \A c \in Calls :
      Succeeded(c) =>
        /\ HasToken(cgot[c], c)
        /\ \A d \in Calls \ {c} : ~HasToken(cgot[c], d)
        /\ Base(cgot[c]) = Base(ckey[c])
        /\ cret[c].out.Filename = TempName(Base(ckey[c]))

\* Both calls have returned an Output, each after polling the shared queue.
C1_Witness == \A c \in Calls : Succeeded(c) /\ cgot[c] # <<>>

\* C2: a call that returns without a matching response (here: with an empty
\* Output) returns a non-nil error.
C2_TimeoutIsError ==
    \A c \in Calls : Returned(c) /\ cret[c].out = EmptyOutput => cret[c].err # NoErr

\* C3: the file named by the returned Output has the content, and the Output
\* the metadata, of a result the handler returned for this call's request.
C3_RoundTrip ==
    \A c \in Calls :
      Succeeded(c) =>
        /\ HasFile(cret[c].out.Filename)
        /\ \E r \in returned :
             /\ r.key = ckey[c]
             /\ FileContent(cret[c].out.Filename) = r.res.content
             /\ cret[c].out.Metadata = r.res.meta

\* A call has returned what the handler produced, metadata included.
C3_Witness ==
    \E c \in Calls : Succeeded(c) /\ cret[c].out.Metadata = "m2"
                     /\ FileContent(cret[c].out.Filename) = "r2"

\* C4: a message of the batch whose operation has no handler, once the server
\* loop has gone past it, is still in the queue and not held under the
\* server's lease; the loop is at a later message of the batch.
NoHandler(m) == m.Bucket = ConfBucket /\ HasOp(m.Key) /\ OpOf(m.Key) \notin Handlers

C4_ReleasedNotDeleted ==
    \A i \in 1..Len(sms) :
      (i < sidx /\ NoHandler(sms[i])) =>
        /\ InQueue(ServerQ, sms[i].ReceiptHandle)
        /\ ~QueueMsg(ServerQ, sms[i].ReceiptHandle).inflight
        /\ <<sms[i].ReceiptHandle>> \in Batches(ServerQ)

\* The loop released the first message of a batch and is at the second one.
C4_Witness ==
    /\ spc = "dispatch"
    /\ sidx = 2
    /\ NoHandler(sms[1])
    /\ ~NoHandler(sms[2])
    /\ InQueue(ServerQ, sms[1].ReceiptHandle)

\* C5: a message of another bucket aborts either loop with the error that
\* carries the configured and the message's bucket; nothing is dispatched
\* past it.
C5_State ==
    /\ \A i \in 1..Len(sms) :
         (i < sidx \/ (i = sidx /\ spc \in {"download", "handle", "upload"})) =>
           sms[i].Bucket = ConfBucket
    /\ \A c \in Calls : \A i \in 1..Len(cms[c]) : i < cidx[c] => cms[c][i].Bucket = ConfBucket
    /\ serr.kind = "bucket" =>
         /\ spc = "done"
         /\ serr.expected = ConfBucket
         /\ serr.got # ConfBucket
         /\ \E m \in queue[ServerQ] : m.bucket = serr.got /\ m.last = Srv
    /\ \A c \in Calls :
         cret[c].err.kind = "bucket" =>
           /\ cpc[c] = "done"
           /\ cret[c].out = EmptyOutput
           /\ cret[c].err.expected = ConfBucket
           /\ cret[c].err.got # ConfBucket
           /\ \E m \in queue[ClientQ] : m.bucket = cret[c].err.got /\ m.last = c

C5_Step ==
    /\ (spc = "dispatch" /\ sms[sidx].Bucket # ConfBucket /\ <<spc, sidx>>' # <<spc, sidx>>) =>
         /\ spc' = "done"
         /\ serr'.kind = "bucket"
         /\ serr'.expected = ConfBucket
         /\ serr'.got = sms[sidx].Bucket
         /\ UNCHANGED <<queue, store, returned>>
    /\ \A c \in Calls :
         (cpc[c] = "dispatch" /\ cms[c][cidx[c]].Bucket # ConfBucket
            /\ <<cpc[c], cidx[c]>>' # <<cpc[c], cidx[c]>>) =>
           /\ cpc'[c] = "done"
           /\ cret'[c].err.kind = "bucket"
           /\ cret'[c].err.expected = ConfBucket
           /\ cret'[c].err.got = cms[c][cidx[c]].Bucket
           /\ UNCHANGED <<queue, store, cfiles>>

C5_BucketMismatchAborts == []C5_State /\ [][C5_Step]_vars

\* ListenAndServe and a call have both returned the bucket error.
C5_Witness ==
    /\ spc = "done" /\ serr.kind = "bucket" /\ serr.got = OtherBucket
    /\ \E c \in Calls : Returned(c) /\ cret[c].err.kind = "bucket" /\ cret[c].err.got = OtherBucket

\* C6, as stated: two invocations of Close return the same outcome and the
\* cleanup runs once, for the server and for the client.
SameOutcome(pc, res) ==
    \A a, b \in Closers : pc[a] = "done" /\ pc[b] = "done" => res[a] = res[b]

Running(pc) == pc \in {"top", "recv", "dispatch", "download", "handle", "upload"}

C7_CloseReturnsNil ==
    (spc = "done" /\ Running(closedAt)
       /\ serr.kind \notin {"transport", "getobject", "upload", "handle", "records", "canceled"}) =>
      serr = NoErr

\* C8: a body without records gives no Message and no error; the other
\* messages of the batch are returned, in order.
AllBatches(q) == BatchesOf({Ident(m) : m \in queue[q]})
IsOneRecord(e) == e.nrec = 1
MsgOf(e) == [Bucket |-> e.bucket, Key |-> e.key, ReceiptHandle |-> e]
OneRecordMsgs(b) ==
    LET t == SelectSeq(b, IsOneRecord) IN [i \in 1..Len(t) |-> MsgOf(t[i])]

C8_ZeroRecordsIgnored ==
    /\ \A q \in {ServerQ, ClientQ} : \A b \in AllBatches(q) :
         (\A i \in 1..Len(b) : b[i].nrec <= 1) =>
           /\ Parse(b).err = NoErr
           /\ Parse(b).msgs = OneRecordMsgs(b)
    /\ \A i \in 1..Len(sms) : sms[i].ReceiptHandle.nrec = 1
    /\ \A c \in Calls : \A i \in 1..Len(cms[c]) : cms[c][i].ReceiptHandle.nrec = 1

\* The server received a body without records together with a request, and
\* is dispatching the request.
C8_Witness ==
    /\ spc = "dispatch"
    /\ \E m \in queue[ServerQ] : m.nrec = 0 /\ m.inflight /\ m.last = Srv

\* C9: a body with more than one record makes Receive return the error and
\* no messages; the loop that called it returns the error, and the step
\* deletes and releases nothing.
ErrKind(p) == IF p = Srv THEN serr.kind ELSE cret[p].err.kind
PcOf(p) == IF p = Srv THEN spc ELSE cpc[p]

C9_State ==
    /\ \A q \in {ServerQ, ClientQ} : \A b \in AllBatches(q) :
         (\E i \in 1..Len(b) : b[i].nrec > 1) =>
           /\ Parse(b).err.kind = "records"
           /\ Parse(b).msgs = <<>>
    /\ \A q \in {ServerQ, ClientQ} : \A m \in queue[q] :
         (m.nrec > 1 /\ m.last # NoProc) => PcOf(m.last) = "done" /\ ErrKind(m.last) = "records"

Aborted(q, p) ==
    /\ UNCHANGED <<store, returned, cfiles>>
    /\ {Ident(m) : m \in queue'[q]} = {Ident(m) : m \in queue[q]}
    /\ \A m \in queue[q] :
         \/ m \in queue'[q]
         \/ ~m.inflight /\ [m EXCEPT !.inflight = TRUE, !.last = p] \in queue'[q]
    /\ \E m \in queue'[q] : m.nrec > 1 /\ m.inflight /\ m.last = p

C9_Step ==
    /\ (spc = "recv" /\ spc' = "done" /\ serr'.kind = "records") => Aborted(ServerQ, Srv)
    /\ \A c \in Calls :
         (cpc[c] = "recv" /\ cpc'[c] = "done" /\ cret'[c].err.kind = "records") =>
           Aborted(ClientQ, c) /\ cret'[c].out = EmptyOutput

C9_ManyRecordsAbort == []C9_State /\ [][C9_Step]_vars

\* ListenAndServe has returned the error; the message is still leased to it.
C9_Witness ==
    /\ spc = "done" /\ serr.kind = "records"
    /\ \E m \in queue[ServerQ] : m.nrec > 1 /\ m.inflight /\ m.last = Srv
    /\ \E m \in queue[ServerQ] : m.nrec = 1 /\ m.inflight /\ m.last = Srv

\* C10: every response object has the key of the request that produced it
\* with to_server replaced by to_client.
C10_ResponseKey ==
    \A o \in store :
      o.key[1] = toClient[1] =>
        \E c \in Calls : ckey[c] # <<>> /\ o.key = toClient \o Tail(ckey[c])

\* C11: every ExecuteFilename call that has uploaded its request returns, also
\* when the responses of other calls are released and received again and
\* again; once its deadline has passed it starts no further Receive, and the
\* select at the top of the loop returns.
C11_Step ==
    \A c \in Calls :
      cctx[c] =>
        /\ (cpc[c] = "top" /\ cpc'[c] # "top") => cpc'[c] = "done"
        /\ cpc'[c] = "recv" => cpc[c] = "recv"

C11_Terminates ==
    /\ \A c \in Calls : (cpc[c] # "idle") ~> (cpc[c] = "done")
    /\ [][C11_Step]_vars

\* A call whose deadline passed has returned from the select while the
\* response of the other call is waiting in the queue.
C11_Witness ==
    \E c \in Calls :
      /\ cctx[c] /\ cpc[c] = "done" /\ cret[c].err = NoErr /\ cgot[c] = <<>>
      /\ \E m \in queue[ClientQ] : ~m.inflight /\ ~HasToken(m.key, c)

\* C12: NewServer and NewClient fail, and create no scratch directory, when the
\* bucket, the access key id, the secret access key or the queue is empty; an
\* empty region alone does not make them fail.
MissingRequired(o) ==
    o.Bucket = "" \/ o.AccessKeyID = "" \/ o.SecretAccessKey = "" \/ o.Queue = ""

C12_Validates(o, new, dirOK) ==
    new.state # "new" =>
      /\ MissingRequired(o) => (new.state = "failed" /\ ~dirOK)
      /\ (~MissingRequired(o) /\ new.state = "failed") => new.err.kind = "mkdirtemp"

C12_RequiredFields ==
    /\ C12_Validates(sopts, snew, sdirOK)
    /\ C12_Validates(copts, cnew, cdirOK)

\* C13: the handler is invoked at most once for a request notification, with
\* one or more servers polling the request queue and also when the lease of
\* the message runs out while an earlier message of the batch is handled.
C13_AtMostOnce ==
    \A r1, r2 \in returned : r1.key = r2.key => r1.by = r2.by

\* C14: for a message whose operation has a handler the server deletes the
\* message before it downloads the request, invokes the handler or uploads a
\* response; when the delete fails it invokes no handler, uploads nothing and
\* ListenAndServe returns the error.
C14_State ==
    /\ spc \in {"download", "handle", "upload"} =>
         ~InQueue(ServerQ, sms[sidx].ReceiptHandle)
    /\ \A r \in returned : \A m \in queue[ServerQ] : m.key # r.key

C14_Step ==
    (spc = "dispatch" /\ spc' = "done") =>
      /\ serr' # NoErr
      /\ UNCHANGED <<queue, store, returned>>

C14_DeleteFirst == []C14_State /\ [][C14_Step]_vars

\* The handler is being invoked for a request whose message is gone from the
\* queue while its request object is still in the bucket.
C14_Witness ==
    /\ spc = "handle"
    /\ ~InQueue(ServerQ, sms[sidx].ReceiptHandle)
    /\ HasObject(store, sms[sidx].Key)

\* C15: when a handler returns an error, ListenAndServe returns a non-nil
\* error: no response is uploaded for that request, the rest of the batch is
\* not dispatched and the loop does not poll again.
ResponseObjects == {o \in store : o.key[1] = toClient[1]}
LeasedTo(p) == {m \in queue[ServerQ] : m.inflight /\ m.last = p}

C15_State == serr # NoErr => spc = "done"

C15_Step ==
    /\ (spc = "handle" /\ returned' = returned /\ spc' # "handle") =>
         /\ spc' = "done" /\ serr'.kind = "handle"
         /\ UNCHANGED <<queue, store>>
    /\ spc = "done" =>
         /\ UNCHANGED <<spc, serr, returned>>
         /\ ResponseObjects' \subseteq ResponseObjects
         /\ LeasedTo(Srv)' \subseteq LeasedTo(Srv)

C15_HandlerErrorAborts == []C15_State /\ [][C15_Step]_vars

\* ListenAndServe has returned the handler's error while a later message of
\* the batch is still leased to it, undispatched.
C15_Witness ==
    /\ spc = "done" /\ serr.kind = "handle"
    /\ LeasedTo(Srv) # {}

\* C16: a message leaves the response queue only through the delete of the call
\* whose correlation identifier its key contains; a call that passes over a
\* message without its identifier leaves it in the queue.
StillInQueue(q, h) == \E n \in queue'[q] : Ident(n) = h

C16_Step ==
    /\ \A m \in queue[ClientQ] :
         ~StillInQueue(ClientQ, Ident(m)) =>
           \E c \in Calls :
             /\ HasToken(m.key, c)
             /\ cpc[c] = "dispatch" /\ cpc'[c] = "done"
             /\ cms[c][cidx[c]].ReceiptHandle = Ident(m)
    /\ \A c \in Calls :
         (/\ cpc[c] = "dispatch" /\ ~HasToken(cms[c][cidx[c]].Key, c)
          /\ (cpc'[c] # cpc[c] \/ cidx'[c] # cidx[c])) =>
           \A m \in queue[ClientQ] : StillInQueue(ClientQ, Ident(m))

C16_OnlyOwnDeleted == [][C16_Step]_vars

\* A call has passed over the response of the other call, which is in the
\* queue, and is at the next message of its batch.
C16_Witness ==
    \E c \in Calls :
      /\ cpc[c] = "dispatch" /\ cidx[c] = 2
      /\ ~HasToken(cms[c][1].Key, c)
      /\ InQueue(ClientQ, cms[c][1].ReceiptHandle)

\* C17: when ExecuteFilename has returned, no message addressed to another
\* call is still held under this call's lease, the messages that came in the
\* same batch after the matching one included. Stated for the calls that
\* return an Output.
HeldBy(c) == {m \in queue[ClientQ] : m.inflight /\ m.last = c}

C17_AllReleased ==
    \A c \in Calls :
      Succeeded(c) => \A m \in HeldBy(c) : HasToken(m.key, c)

\* C18: cancellation of the context and Close are acted on only at the top of
\* a loop iteration: when one of them happens while a message is dispatched,
\* the download, the handler call and the upload in flight still complete, so
\* that ListenAndServe leaves them only for a failure of their own.
InFlight == {"download", "handle", "upload"}

C18_Step ==
    (spc \in InFlight /\ (sctx \/ quit) /\ spc' = "done") =>
      serr'.kind \in {"getobject", "handle", "upload"}

C18_InFlightCompletes == [][C18_Step]_vars

\* C19: a response object, and its notification in the response queue, exist
\* only for a basename whose request object has been uploaded, and a call
\* polls for and downloads a response only after its own upload has returned.
Uploaded(key) == \E c \in Calls : ckey[c] # <<>> /\ Base(ckey[c]) = Base(key)

C19_ResponseAfterRequest ==
    /\ \A o \in ResponseObjects : Uploaded(o.key)
    /\ \A m \in queue[ClientQ] : Uploaded(m.key)
    /\ \A c \in Calls :
         ckey[c] = <<>> =>
           /\ cpc[c] \in {"idle", "done"} /\ cgot[c] = <<>>
           /\ \A o \in ResponseObjects : ~HasToken(o.key, c)
           /\ \A m \in queue[ClientQ] : ~HasToken(m.key, c)

\* The response of a call is in the bucket and announced in the response
\* queue while the call is polling.
C19_Witness ==
    \E c \in Calls :
      /\ cpc[c] \in {"top", "recv"}
      /\ \E o \in ResponseObjects : HasToken(o.key, c) /\ Base(o.key) = Base(ckey[c])
      /\ \E m \in queue[ClientQ] : HasToken(m.key, c)

\* C20: after ExecuteFilename has returned an error, no file that the call
\* created remains in the scratch directory of the client.
C20_PartialDiscarded ==
    \A c \in Calls :
      (Returned(c) /\ cret[c].err # NoErr) =>
        ~\E f \in cfiles : HasToken(f.name, c)

\* C21: a failed queue or store call of the server loop (Receive, delete,
\* release, download, upload) makes ListenAndServe return that error: the
\* failed call has changed neither queue nor bucket, it is not tried again,
\* the next message of the batch is not dispatched and the loop polls no more.
CallFailures == {"transport", "canceled", "getobject", "upload"}

C21_State == serr.kind \in CallFailures => spc = "done"

C21_Step ==
    /\ (serr = NoErr /\ serr'.kind \in CallFailures) =>
         /\ spc \in {"recv", "dispatch", "download", "upload"}
         /\ spc' = "done"
         /\ UNCHANGED <<queue, store, returned>>
    /\ (spc = "done" /\ serr.kind \in CallFailures) =>
         /\ UNCHANGED <<spc, serr, sms, sidx>>
         /\ LeasedTo(Srv)' \subseteq LeasedTo(Srv)
         /\ ResponseObjects' \subseteq ResponseObjects

C21_CallFailureAborts == []C21_State /\ [][C21_Step]_vars

\* ListenAndServe has returned the error of a failed call while another
\* message of the batch is still leased to it, undispatched.
C21_Witness ==
    /\ spc = "done" /\ serr.kind \in CallFailures
    /\ LeasedTo(Srv) # {}

\* C22: the server loop does not crash on a received message, whatever its
\* key: it never ends in the run-time panic of an index out of range when it
\* takes the operation name from a key without an operation segment.
C22_NoCrash == spc # "panic"
====
